---- MODULE Spec2Model ----
(***************************************************************************)
(* PushPullS3 (docarray/array/array/pushpull/s3.py): streaming push and    *)
(* pull of a document sequence to and from an S3 object, plus delete.      *)
(*                                                                         *)
(* Bytes are small naturals, byte strings are sequences of bytes, names    *)
(* are sequences of one-character strings.  The object store, smart_open   *)
(* streams and the binary codec (pushpull/helpers.py) are the environment  *)
(* the class calls into.                                                   *)
(***************************************************************************)
EXTENDS Integers, Sequences, FiniteSets, TLC

(* ---------------------------------------------------------------- bounds *)
\* Longest document sequence handed to push / push_stream.
MaxDocs == 2

\* Processes that may run push_stream.  Spec runs a single client (process 1).
Procs == {1, 2}
SeqProcs == {1}

(* ------------------------------------------------------- byte strings *)
RECURSIVE Flatten(_)
\* b"".join(blocks)
Flatten(ss) == IF ss = <<>> THEN <<>> ELSE Head(ss) \o Flatten(Tail(ss))

Min(a, b) == IF a <= b THEN a ELSE b

\* io.BytesIO.write(b) at position pos: overwrites in place, extends the
\* buffer when the write runs past its end, never truncates what lies behind.
BytesIO_write(data, pos, b) ==
    [data |-> SubSeq(data, 1, pos) \o b \o SubSeq(data, pos + Len(b) + 1, Len(data)),
     pos  |-> pos + Len(b),
     n    |-> Len(b)]

\* io.BytesIO.read(n) at position pos: at most n bytes, up to the end.
BytesIO_read(data, pos, n) ==
    [bytes |-> SubSeq(data, pos + 1, Min(pos + n, Len(data))),
     pos   |-> Min(pos + n, Len(data))]

(* ---------------------------------------------------------------- names *)
Slash == "/"
Ext == <<".", "d", "a">>

NameX   == <<"b", "/", "x">>
NameNY  == <<"b", "/", "n", "/", "y">>
NameBad == <<"b", "x">>
ValidNames == {NameX, NameNY}
Names == ValidNames \cup {NameBad}

HasSlash(name) == \E i \in 1..Len(name) : name[i] = Slash
FirstSlash(name) == CHOOSE i \in 1..Len(name) :
                        name[i] = Slash /\ \A j \in 1..(i - 1) : name[j] # Slash

\* bucket, name = name.split('/', 1): the unpacking raises ValueError
\* unless the split yields two parts.
\* Variant: the split is not limited to the first '/'.
split_ok_one_slash(name) == Cardinality({i \in 1..Len(name) : name[i] = Slash}) = 1

split_ok(name) == HasSlash(name)
split_bucket(name) == SubSeq(name, 1, FirstSlash(name) - 1)
split_name(name) == SubSeq(name, FirstSlash(name) + 1, Len(name))

\* The object addressed by f"s3://{bucket}/{name}.da" and s3.Object(bucket, name + '.da').
ObjectKey(name) == <<split_bucket(name), split_name(name) \o Ext>>

\* A name whose collection lies one level below the namespace of NameNY.
NameNSY == <<"b", "/", "n", "/", "s", "/", "y">>

\* Objects of the bucket that no name used here addresses.
KeyDotted == << <<"b">>, <<"o", "/", "a", ".", "b", ".", "d", "a">> >>
KeyOther  == << <<"b">>, <<"o", "/", "c", ".", "d", "a">> >>
KeyTxt    == << <<"b">>, <<"n", "/", "y", ".", "t", "x", "t">> >>
ForeignKeys == {KeyDotted, KeyOther, KeyTxt}

Keys == {ObjectKey(n) : n \in ValidNames \cup {NameNSY}} \cup ForeignKeys

\* s3_bucket.objects.all() lists keys in ascending order.
KeyOrder == <<ObjectKey(NameNSY), ObjectKey(NameNY), KeyTxt, KeyDotted, KeyOther,
              ObjectKey(NameX)>>

(* ---------------------------------------------------------------- codec *)
Docs == {"a", "c"}

\* doc.to_bytes(protocol='protobuf', compress='gzip')
to_bytes(d) == CASE d = "a" -> <<>>
                 [] d = "c" -> <<8, 9>>

\* The chunks one document contributes: a length frame, then the payload.
DocChunks(d) == << <<Len(to_bytes(d))>>, to_bytes(d) >>

RECURSIVE _to_binary_stream(_)
_to_binary_stream(ds) ==
    IF ds = <<>> THEN <<>> ELSE DocChunks(Head(ds)) \o _to_binary_stream(Tail(ds))

\* One decoding step of _from_binary_stream on `data` at offset pos.
FrameComplete(data, pos) ==
    /\ pos + 1 <= Len(data)
    /\ pos + 1 + data[pos + 1] <= Len(data)
FramePayload(data, pos) == SubSeq(data, pos + 2, pos + 1 + data[pos + 1])
FrameDecodable(data, pos) ==
    /\ FrameComplete(data, pos)
    /\ \E d \in Docs : to_bytes(d) = FramePayload(data, pos)
from_bytes(bs) == CHOOSE d \in Docs : to_bytes(d) = bs

RECURSIVE SeqsUpTo(_, _)
SeqsUpTo(S, n) ==
    IF n = 0 THEN {<<>>}
    ELSE LET shorter == SeqsUpTo(S, n - 1)
         IN shorter \cup {Append(s, x) : s \in shorter, x \in S}

DocSeqs == SeqsUpTo(Docs, MaxDocs)

(* ---------------------------------------------------------------- state *)
\* _buffer_cap = 4 * 1024 * 1024 - 1024 in the source; scaled down here so
\* that blocks fill after a few chunks.
_buffer_cap == 3

VARIABLES
    objects,        \* the bucket's objects: key -> [exists, body]
    pushed,         \* per key, the document sequence of the push that produced the object
    pc,             \* push_stream, per process: idle / loop / exit / returned / raised
    pname,          \* push_stream's name argument
    pdocs,          \* push_stream's docs argument
    binary_stream,  \* the chunks _to_binary_stream yields for pdocs
    fetched,        \* how many chunks next(binary_stream) has handed out
    _buffer,        \* the io.BytesIO: [data, pos]
    _buffer_size,
    fout,           \* the smart_open writer: [state, written, closes]
    perr,           \* the exception push_stream raised
    pbefore,        \* the object under the pushed name when the write stream was opened
    pull,           \* pull_stream and its lazy sequence: [pc, name, err]
    rstream,        \* the smart_open reader: [state, data, pos, closes]
    pulled,         \* the documents the lazy sequence has yielded
    expect,         \* pushed[key] when the read stream was opened
    del,            \* the last delete call: arguments, store outcomes, result, and the
                    \* result of the delete of the same name made just before it
    lst             \* the last list call: argument, bucket and prefix used, result

vars == <<objects, pushed, pc, pname, pdocs, binary_stream, fetched, _buffer,
          _buffer_size, fout, perr, pbefore, pull, rstream, pulled, expect, del, lst>>

pushVars == <<pc, pname, pdocs, binary_stream, fetched, _buffer, _buffer_size, fout, perr,
              pbefore>>
pullVars == <<pull, rstream, pulled, expect>>

AbsentObject == [exists |-> FALSE, body |-> <<>>]
NoPush == [known |-> FALSE, docs |-> <<>>]

\* A blob some other writer left in the bucket: one whole frame, then a
\* frame announcing two payload bytes that holds only one.
ForeignBlob == <<0, 2, 8>>

NoStream == [state |-> "none", written |-> <<>>, closes |-> 0]
NoReader == [state |-> "none", data |-> <<>>, pos |-> 0, closes |-> 0]
NoPull == [pc |-> "idle", name |-> <<>>, err |-> "none"]
NoDelete == [called |-> FALSE, name |-> <<>>, missing_ok |-> FALSE, existed |-> FALSE,
             load |-> "none", requests |-> 0, result |-> "none", prev |-> "none"]
NoList == [called |-> FALSE, arg |-> <<>>, bucket |-> <<>>, prefix |-> <<>>, requests |-> 0,
           names |-> <<>>, err |-> "none"]
EmptyBytesIO == [data |-> <<>>, pos |-> 0]

PushRunning(p) == pc[p] \in {"loop", "exit"}
PullRunning == pull.pc = "open"

Init ==
    /\ objects \in {[k \in Keys |-> AbsentObject],
                    [k \in Keys |-> IF k = ObjectKey(NameNY)
                                    THEN [exists |-> TRUE, body |-> ForeignBlob]
                                    ELSE AbsentObject]}
    /\ pushed = [k \in Keys |-> NoPush]
    /\ pc = [p \in Procs |-> "idle"]
    /\ pname = [p \in Procs |-> <<>>]
    /\ pdocs = [p \in Procs |-> <<>>]
    /\ binary_stream = [p \in Procs |-> <<>>]
    /\ fetched = [p \in Procs |-> 0]
    /\ _buffer = [p \in Procs |-> EmptyBytesIO]
    /\ _buffer_size = [p \in Procs |-> 0]
    /\ fout = [p \in Procs |-> NoStream]
    /\ perr = [p \in Procs |-> "none"]
    /\ pbefore = [p \in Procs |-> AbsentObject]
    /\ pull = NoPull
    /\ rstream = NoReader
    /\ pulled = <<>>
    /\ expect = NoPush
    /\ del = NoDelete
    /\ lst = NoList

(* ---------------------------------------------------------- push_stream *)
\* smart_open.open(..., 'wb'): a writer that keeps what it is given until closed.
OpenWriter == [state |-> "open", written |-> <<>>, closes |-> 0]

\* fout.write(block)
WriterWrite(f, block) == [f EXCEPT !.written = Append(@, block)]

\* Variant: the stream is closed in a `finally`, so a failed upload is
\* completed like a successful one.
WithExit_closes_on_error(f, failed) == [f EXCEPT !.state = "closed", !.closes = @ + 1]

\* Variant: fout.close() follows the loop without a `with`, so an exception
\* skips it.
WithExit_skipped_on_error(f, failed) ==
    IF failed THEN f ELSE [f EXCEPT !.state = "closed", !.closes = @ + 1]

\* Leaving the `with` block: the writer's __exit__ runs once, closing the
\* stream on a normal exit and terminating the upload when an exception
\* passes through.
WithExit(f, failed) ==
    [f EXCEPT !.state = IF failed THEN "aborted" ELSE "closed", !.closes = @ + 1]

\* Closing the writer makes the object visible with everything written;
\* a terminated upload leaves the bucket as it was.
Commit(objs, key, f) ==
    IF f.state = "closed"
    THEN [objs EXCEPT ![key] = [exists |-> TRUE, body |-> Flatten(f.written)]]
    ELSE objs

\* Variant: the buffer is flushed only at the end of the source.
FlushDue_never(size) == FALSE

\* Variant: strict comparison.
FlushDue_strict(size) == size > _buffer_cap

\* Variant: the threshold is reached one byte early.
FlushDue_early(size) == size + 1 >= _buffer_cap

\* if _buffer_size >= _buffer_cap
FlushDue(size) == size >= _buffer_cap

\* Variant: the whole buffer is read (getvalue()), stale bytes included.
ReadBlock_whole(buf, size) == BytesIO_read(buf.data, 0, Len(buf.data))

\* Variant: the seek(0) before the read is missing.
ReadBlock_no_seek(buf, size) == BytesIO_read(buf.data, buf.pos, size)

\* _buffer.seek(0); _buffer.read(_buffer_size)
ReadBlock(buf, size) == BytesIO_read(buf.data, 0, size)

\* Variant: the buffer is not rewound after a block.
Rewind_missing(buf) == buf

\* _buffer.seek(0) after the block has been handed to fout.write
Rewind(buf) == [buf EXCEPT !.pos = 0]

\* The `with` block of process p is left with writer f.
LeaveWith(p, f, failed) ==
    LET g == WithExit(f, failed)
        key == ObjectKey(pname[p])
    IN /\ fout' = [fout EXCEPT ![p] = g]
       /\ objects' = Commit(objects, key, g)
       /\ pushed' = IF g.state = "closed"
                    THEN [pushed EXCEPT ![key] = [known |-> TRUE, docs |-> pdocs[p]]]
                    ELSE pushed

\* Variant: the buffer and its size counter are shared by all calls.
Local_shared(p) == 1

\* Lines 95-97: _buffer and _buffer_size are locals of the call, so each
\* running push_stream uses its own.
Local(p) == p

\* Lines 90-99: split the name, build the encoder, open the write stream.
push_stream_open(p, name, ds) ==
    /\ ~PushRunning(p)
    /\ ~PullRunning
    /\ pname' = [pname EXCEPT ![p] = name]
    /\ pdocs' = [pdocs EXCEPT ![p] = ds]
    /\ fetched' = [fetched EXCEPT ![p] = 0]
    /\ _buffer' = [_buffer EXCEPT ![Local(p)] = EmptyBytesIO]
    /\ _buffer_size' = [_buffer_size EXCEPT ![Local(p)] = 0]
    /\ IF split_ok(name)
       THEN /\ binary_stream' = [binary_stream EXCEPT ![p] = _to_binary_stream(ds)]
            /\ fout' = [fout EXCEPT ![p] = OpenWriter]
            /\ pbefore' = [pbefore EXCEPT ![p] = objects[ObjectKey(name)]]
            /\ pc' = [pc EXCEPT ![p] = "loop"]
            /\ perr' = [perr EXCEPT ![p] = "none"]
       ELSE /\ binary_stream' = [binary_stream EXCEPT ![p] = <<>>]
            /\ fout' = [fout EXCEPT ![p] = NoStream]
            /\ pbefore' = [pbefore EXCEPT ![p] = AbsentObject]
            /\ pc' = [pc EXCEPT ![p] = "raised"]
            /\ perr' = [perr EXCEPT ![p] = "ValueError"]
    /\ pull' = NoPull /\ rstream' = NoReader /\ pulled' = <<>> /\ expect' = NoPush
    /\ del' = NoDelete
    /\ lst' = NoList
    /\ UNCHANGED <<objects, pushed>>

\* Lines 102-108: one pass of the loop body with a chunk available.
push_stream_chunk(p) ==
    /\ pc[p] = "loop"
    /\ fetched[p] < Len(binary_stream[p])
    /\ LET chunk == binary_stream[p][fetched[p] + 1]
           w == BytesIO_write(_buffer[Local(p)].data, _buffer[Local(p)].pos, chunk)
           buf == [data |-> w.data, pos |-> w.pos]
           size == _buffer_size[Local(p)] + w.n
           r == ReadBlock(buf, size)
       IN /\ fetched' = [fetched EXCEPT ![p] = @ + 1]
          /\ IF FlushDue(size)
             THEN \/ \* fout.write succeeds
                     /\ fout' = [fout EXCEPT ![p] = WriterWrite(@, r.bytes)]
                     /\ _buffer' = [_buffer EXCEPT ![Local(p)] = Rewind([buf EXCEPT !.pos = r.pos])]
                     /\ _buffer_size' = [_buffer_size EXCEPT ![Local(p)] = 0]
                     /\ UNCHANGED <<pc, perr, objects, pushed>>
                  \/ \* fout.write raises
                     /\ LeaveWith(p, fout[p], TRUE)
                     /\ _buffer' = [_buffer EXCEPT ![Local(p)] = [buf EXCEPT !.pos = r.pos]]
                     /\ _buffer_size' = [_buffer_size EXCEPT ![Local(p)] = size]
                     /\ pc' = [pc EXCEPT ![p] = "raised"]
                     /\ perr' = [perr EXCEPT ![p] = "TransferFailure"]
             ELSE /\ _buffer' = [_buffer EXCEPT ![Local(p)] = buf]
                  /\ _buffer_size' = [_buffer_size EXCEPT ![Local(p)] = size]
                  /\ UNCHANGED <<fout, pc, perr, objects, pushed>>
    /\ UNCHANGED <<pname, pdocs, binary_stream, pbefore, pullVars, del, lst>>

\* Line 102: next(binary_stream) raises something other than StopIteration
\* (the document producer or the encoder failed).
push_stream_source_fails(p) ==
    /\ pc[p] = "loop"
    /\ LeaveWith(p, fout[p], TRUE)
    /\ pc' = [pc EXCEPT ![p] = "raised"]
    /\ perr' = [perr EXCEPT ![p] = "SourceFailure"]
    /\ UNCHANGED <<pname, pdocs, binary_stream, fetched, _buffer, _buffer_size, pbefore,
                   pullVars, del, lst>>

\* Lines 109-114: StopIteration, the rest of the buffer is written, break.
push_stream_end(p) ==
    /\ pc[p] = "loop"
    /\ fetched[p] = Len(binary_stream[p])
    /\ LET r == ReadBlock(_buffer[Local(p)], _buffer_size[Local(p)])
       IN \/ \* fout.write succeeds
             /\ fout' = [fout EXCEPT ![p] = WriterWrite(@, r.bytes)]
             /\ _buffer' = [_buffer EXCEPT ![Local(p)] = Rewind([@ EXCEPT !.pos = r.pos])]
             /\ _buffer_size' = [_buffer_size EXCEPT ![Local(p)] = 0]
             /\ pc' = [pc EXCEPT ![p] = "exit"]
             /\ UNCHANGED <<perr, objects, pushed>>
          \/ \* fout.write raises
             /\ LeaveWith(p, fout[p], TRUE)
             /\ _buffer' = [_buffer EXCEPT ![Local(p)].pos = r.pos]
             /\ pc' = [pc EXCEPT ![p] = "raised"]
             /\ perr' = [perr EXCEPT ![p] = "TransferFailure"]
             /\ UNCHANGED _buffer_size
    /\ UNCHANGED <<pname, pdocs, binary_stream, fetched, pbefore, pullVars, del, lst>>

\* Lines 99 and 116: the `with` block is left normally, then return {}.
push_stream_return(p) ==
    /\ pc[p] = "exit"
    /\ LeaveWith(p, fout[p], FALSE)
    /\ pc' = [pc EXCEPT ![p] = "returned"]
    /\ UNCHANGED <<pname, pdocs, binary_stream, fetched, _buffer, _buffer_size, pbefore,
                   perr, pullVars, del, lst>>

(* ---------------------------------------------------------- pull_stream *)
\* smart_open.open(..., 'rb') on an existing object: a reader over its body.
OpenReader(body) == [state |-> "open", data |-> body, pos |-> 0, closes |-> 0]

\* Variant: the decoder leaves the stream to its caller.
ReleaseReader_never(r) == r

\* The decoder releases the read stream it was handed.
ReleaseReader(r) == [r EXCEPT !.state = "closed", !.closes = @ + 1]

\* Lines 139-147: split the name, open the read stream, hand it to the decoder.
pull_stream_open(name) ==
    /\ ~PullRunning
    /\ \A p \in Procs : ~PushRunning(p)
    /\ pulled' = <<>>
    /\ IF ~split_ok(name)
       THEN /\ pull' = [pc |-> "failed", name |-> name, err |-> "ValueError"]
            /\ rstream' = NoReader
            /\ expect' = NoPush
       ELSE IF ~objects[ObjectKey(name)].exists
       THEN /\ pull' = [pc |-> "failed", name |-> name, err |-> "NotFound"]
            /\ rstream' = NoReader
            /\ expect' = NoPush
       ELSE /\ pull' = [pc |-> "open", name |-> name, err |-> "none"]
            /\ rstream' = OpenReader(objects[ObjectKey(name)].body)
            /\ expect' = pushed[ObjectKey(name)]
    /\ pc' = [p \in Procs |-> "idle"]
    /\ pname' = [p \in Procs |-> <<>>]
    /\ pdocs' = [p \in Procs |-> <<>>]
    /\ binary_stream' = [p \in Procs |-> <<>>]
    /\ fetched' = [p \in Procs |-> 0]
    /\ _buffer' = [p \in Procs |-> EmptyBytesIO]
    /\ _buffer_size' = [p \in Procs |-> 0]
    /\ fout' = [p \in Procs |-> NoStream]
    /\ perr' = [p \in Procs |-> "none"]
    /\ pbefore' = [p \in Procs |-> AbsentObject]
    /\ del' = NoDelete
    /\ lst' = NoList
    /\ UNCHANGED <<objects, pushed>>

\* The consumer asks the lazy sequence for its next document.
pull_next ==
    /\ pull.pc = "open"
    /\ IF rstream.pos = Len(rstream.data)
       THEN /\ pull' = [pull EXCEPT !.pc = "exhausted"]
            /\ rstream' = ReleaseReader(rstream)
            /\ UNCHANGED pulled
       ELSE IF FrameDecodable(rstream.data, rstream.pos)
       THEN /\ pulled' = Append(pulled, from_bytes(FramePayload(rstream.data, rstream.pos)))
            /\ rstream' = [rstream EXCEPT !.pos = @ + 1 + rstream.data[@ + 1]]
            /\ UNCHANGED pull
       ELSE /\ pull' = [pull EXCEPT !.pc = "failed", !.err = "CodecFailure"]
            /\ rstream' = ReleaseReader(rstream)
            /\ UNCHANGED pulled
    /\ UNCHANGED <<objects, pushed, pushVars, expect, del, lst>>

\* A read from the store fails while the sequence is being consumed.
pull_read_fails ==
    /\ pull.pc = "open"
    /\ pull' = [pull EXCEPT !.pc = "failed", !.err = "TransferFailure"]
    /\ rstream' = ReleaseReader(rstream)
    /\ UNCHANGED <<objects, pushed, pushVars, pulled, expect, del, lst>>

\* The consumer drops the lazy sequence before exhausting it.
pull_abandon ==
    /\ pull.pc = "open"
    /\ pull' = [pull EXCEPT !.pc = "abandoned"]
    /\ rstream' = ReleaseReader(rstream)
    /\ UNCHANGED <<objects, pushed, pushVars, pulled, expect, del, lst>>

(* --------------------------------------------------------------- delete *)
\* object.load(): what the store can answer for an object that exists or not.
LoadOutcomes(exists) == IF exists THEN {"ok", "error"} ELSE {"404", "error"}

\* Variant: the missing_ok test is inverted.
DeleteResult_inverted(load, missing_ok) ==
    CASE load = "ok"    -> "True"
      [] load = "404"   -> IF missing_ok THEN "ValueError" ELSE "False"
      [] load = "error" -> "ClientError"

\* Variant: every ClientError is read as "absent".
DeleteResult_swallows(load, missing_ok) ==
    CASE load = "ok"    -> "True"
      [] load = "404"   -> IF missing_ok THEN "False" ELSE "ValueError"
      [] load = "error" -> IF missing_ok THEN "False" ELSE "ValueError"

\* Lines 59-70: the result of delete for an outcome of object.load().
DeleteResult(load, missing_ok) ==
    CASE load = "ok"    -> "True"
      [] load = "404"   -> IF missing_ok THEN "False" ELSE "ValueError"
      [] load = "error" -> "ClientError"

\* Variant: delete answers without removing the object.
DeleteIssued_never(load, missing_ok) == FALSE

\* Line 69 is reached only when object.load() raised nothing.
DeleteIssued(load, missing_ok) == load = "ok"

\* object.delete()
RemoveObject(objs, key) == [objs EXCEPT ![key] = AbsentObject]

\* What the caller got from delete when its previous call was a delete of the same name.
PrevDelete(name) == IF del.called /\ del.name = name THEN del.result ELSE "none"

\* Lines 55-70.
delete(name, missing_ok) ==
    /\ ~PullRunning
    /\ \A p \in Procs : ~PushRunning(p)
    /\ IF ~split_ok(name)
       THEN /\ del' = [called |-> TRUE, name |-> name, missing_ok |-> missing_ok,
                       existed |-> FALSE, load |-> "none", requests |-> 0,
                       result |-> "ValueError", prev |-> PrevDelete(name)]
            /\ UNCHANGED <<objects, pushed>>
       ELSE LET key == ObjectKey(name)
            IN \E load \in LoadOutcomes(objects[key].exists) :
                  /\ del' = [called |-> TRUE, name |-> name, missing_ok |-> missing_ok,
                             existed |-> objects[key].exists, load |-> load,
                             requests |-> IF DeleteIssued(load, missing_ok) THEN 1 ELSE 0,
                             result |-> DeleteResult(load, missing_ok),
                             prev |-> PrevDelete(name)]
                  /\ IF DeleteIssued(load, missing_ok)
                     THEN /\ objects' = RemoveObject(objects, key)
                          /\ pushed' = [pushed EXCEPT ![key] = NoPush]
                     ELSE UNCHANGED <<objects, pushed>>
    /\ pc' = [p \in Procs |-> "idle"]
    /\ pname' = [p \in Procs |-> <<>>]
    /\ pdocs' = [p \in Procs |-> <<>>]
    /\ binary_stream' = [p \in Procs |-> <<>>]
    /\ fetched' = [p \in Procs |-> 0]
    /\ _buffer' = [p \in Procs |-> EmptyBytesIO]
    /\ _buffer_size' = [p \in Procs |-> 0]
    /\ fout' = [p \in Procs |-> NoStream]
    /\ perr' = [p \in Procs |-> "none"]
    /\ pbefore' = [p \in Procs |-> AbsentObject]
    /\ pull' = NoPull /\ rstream' = NoReader /\ pulled' = <<>> /\ expect' = NoPush
    /\ lst' = NoList

(* ----------------------------------------------------------------- list *)
StartsWith(s, pre) == Len(pre) <= Len(s) /\ SubSeq(s, 1, Len(pre)) = pre
EndsWith(s, suf) == Len(suf) <= Len(s) /\ SubSeq(s, Len(s) - Len(suf) + 1, Len(s)) = suf
Positions(s, ch) == {i \in 1..Len(s) : s[i] = ch}
Greatest(S) == CHOOSE i \in S : \A j \in S : j <= i
Least(S) == CHOOSE i \in S : \A j \in S : i <= j

\* key.split('/')[-1]
LastSegment(key) ==
    IF Positions(key, Slash) = {} THEN key
    ELSE SubSeq(key, Greatest(Positions(key, Slash)) + 1, Len(key))

\* segment.split('.')[0]
BeforeFirstDot(seg) ==
    IF Positions(seg, ".") = {} THEN seg
    ELSE SubSeq(seg, 1, Least(Positions(seg, ".")) - 1)

\* Variant: the extension is left on the name.
da_name_keeps_ext(key) == LastSegment(key)

\* Line 28: f.key.split('/')[-1].split('.')[0]
da_name(key) == BeforeFirstDot(LastSegment(key))

\* Line 26: obj.key.startswith(namespace) and obj.key.endswith('.da')
is_da_file(key, namespace) == StartsWith(key, namespace) /\ EndsWith(key, Ext)

\* Line 25: s3.Bucket(bucket).objects.all()
BucketObjects(objs, bucket) ==
    SelectSeq(KeyOrder, LAMBDA k : k[1] = bucket /\ objs[k].exists)

\* Lines 23-28.
da_names(objs, bucket, namespace) ==
    LET da_files == SelectSeq(BucketObjects(objs, bucket),
                              LAMBDA k : is_da_file(k[2], namespace))
    IN [i \in 1..Len(da_files) |-> da_name(da_files[i][2])]

\* Lines 19-28 and 52 (show_table only prints).
list(namespace) ==
    /\ ~PullRunning
    /\ \A p \in Procs : ~PushRunning(p)
    /\ IF ~split_ok(namespace)
       THEN lst' = [called |-> TRUE, arg |-> namespace, bucket |-> <<>>, prefix |-> <<>>,
                    requests |-> 0, names |-> <<>>, err |-> "ValueError"]
       ELSE lst' = [called |-> TRUE, arg |-> namespace,
                    bucket |-> split_bucket(namespace), prefix |-> split_name(namespace),
                    requests |-> 1,
                    names |-> da_names(objects, split_bucket(namespace),
                                       split_name(namespace)),
                    err |-> "none"]
    /\ pc' = [p \in Procs |-> "idle"]
    /\ pname' = [p \in Procs |-> <<>>]
    /\ pdocs' = [p \in Procs |-> <<>>]
    /\ binary_stream' = [p \in Procs |-> <<>>]
    /\ fetched' = [p \in Procs |-> 0]
    /\ _buffer' = [p \in Procs |-> EmptyBytesIO]
    /\ _buffer_size' = [p \in Procs |-> 0]
    /\ fout' = [p \in Procs |-> NoStream]
    /\ perr' = [p \in Procs |-> "none"]
    /\ pbefore' = [p \in Procs |-> AbsentObject]
    /\ pull' = NoPull /\ rstream' = NoReader /\ pulled' = <<>> /\ expect' = NoPush
    /\ del' = NoDelete
    /\ UNCHANGED <<objects, pushed>>

(* -------------------------------------------------------- specification *)
Next ==
    \/ \E p \in SeqProcs, name \in Names, ds \in DocSeqs : push_stream_open(p, name, ds)
    \/ \E p \in SeqProcs : push_stream_chunk(p)
    \/ \E p \in SeqProcs : push_stream_source_fails(p)
    \/ \E p \in SeqProcs : push_stream_end(p)
    \/ \E p \in SeqProcs : push_stream_return(p)
    \/ \E name \in Names : pull_stream_open(name)
    \/ pull_next
    \/ pull_read_fails
    \/ pull_abandon
    \/ \E name \in Names, missing_ok \in BOOLEAN : delete(name, missing_ok)

Spec == Init /\ [][Next]_vars

(* The catalogue: list, delete, push and pull over a bucket that also holds
   objects of other writers; the pushed collections are kept short. *)
CatalogNames == {NameNY, NameNSY, NameBad}
Namespaces == {<<"b", "/", "n">>, <<"b", "/", "o">>, <<"b", "/", "n", "/", "y">>,
               <<"b", "/", "n", "/", "s">>, <<"b">>}
CatalogDocSeqs == {<<>>, <<"c">>}

InitCatalog ==
    /\ \E present \in SUBSET ForeignKeys :
          objects = [k \in Keys |-> IF k \in present
                                    THEN [exists |-> TRUE, body |-> <<>>]
                                    ELSE AbsentObject]
    /\ pushed = [k \in Keys |-> NoPush]
    /\ pc = [p \in Procs |-> "idle"]
    /\ pname = [p \in Procs |-> <<>>]
    /\ pdocs = [p \in Procs |-> <<>>]
    /\ binary_stream = [p \in Procs |-> <<>>]
    /\ fetched = [p \in Procs |-> 0]
    /\ _buffer = [p \in Procs |-> EmptyBytesIO]
    /\ _buffer_size = [p \in Procs |-> 0]
    /\ fout = [p \in Procs |-> NoStream]
    /\ perr = [p \in Procs |-> "none"]
    /\ pbefore = [p \in Procs |-> AbsentObject]
    /\ pull = NoPull
    /\ rstream = NoReader
    /\ pulled = <<>>
    /\ expect = NoPush
    /\ del = NoDelete
    /\ lst = NoList

NextCatalog ==
    \/ \E p \in SeqProcs, name \in CatalogNames, ds \in CatalogDocSeqs :
          push_stream_open(p, name, ds)
    \/ \E p \in SeqProcs : push_stream_chunk(p)
    \/ \E p \in SeqProcs : push_stream_source_fails(p)
    \/ \E p \in SeqProcs : push_stream_end(p)
    \/ \E p \in SeqProcs : push_stream_return(p)
    \/ \E name \in CatalogNames : pull_stream_open(name)
    \/ pull_next
    \/ pull_read_fails
    \/ pull_abandon
    \/ \E name \in CatalogNames, missing_ok \in BOOLEAN : delete(name, missing_ok)
    \/ \E namespace \in Namespaces : list(namespace)

SpecCatalog == InitCatalog /\ [][NextCatalog]_vars

(* --------------------------------------------------------------- claims *)
\* The chunks process p has fetched so far, and their bytes.
Consumed(p) == SubSeq(binary_stream[p], 1, fetched[p])
LastN(bs, n) == SubSeq(bs, Len(bs) - n + 1, Len(bs))
IsPrefix(s, t) == Len(s) <= Len(t) /\ s = SubSeq(t, 1, Len(s))

\* C1: when push_stream returns normally, the byte strings written to the
\* remote stream, joined in write order, equal the input chunks joined in
\* generation order.
C1_BytesConserved ==
    \A p \in Procs :
        pc[p] = "returned" => Flatten(fout[p].written) = Flatten(binary_stream[p])

\* A returned push of two blocks whose source held a zero-length chunk.
C1_Witness ==
    \E p \in Procs :
        /\ pc[p] = "returned"
        /\ Len(fout[p].written) = 2
        /\ fout[p].written[2] # <<>>
        /\ \E i \in 1..Len(binary_stream[p]) : binary_stream[p][i] = <<>>

\* C2: a pull of a name whose object was produced by a completed push of D,
\* with no later push or delete of that name, yields the documents of D in
\* order: never a document out of place, never a decoding failure, and all
\* of D once the sequence is exhausted.
C2_RoundTrip ==
    expect.known =>
        /\ IsPrefix(pulled, expect.docs)
        /\ pull.err # "CodecFailure"
        /\ pull.pc = "exhausted" => pulled = expect.docs

\* A pull that has yielded two different documents and is exhausted.
C2_Witness ==
    /\ expect.known
    /\ pull.pc = "exhausted"
    /\ Len(pulled) = 2
    /\ pulled[1] # pulled[2]

\* C3: in the step that appends a chunk, a block is written iff the
\* accumulated size reaches the capacity; the block is the whole accumulated
\* buffer and the counter returns to zero; otherwise nothing is written and
\* the counter grows by the chunk's length.
C3_FlushRule ==
    [][\A p \in Procs :
          fetched'[p] = fetched[p] + 1 =>
              LET chunk == binary_stream[p][fetched'[p]]
                  size == _buffer_size[p] + Len(chunk)
                  acc == LastN(Flatten(SubSeq(binary_stream[p], 1, fetched'[p])), size)
              IN IF size >= _buffer_cap
                 THEN \/ /\ pc'[p] = "loop"
                         /\ fout'[p].written = Append(fout[p].written, acc)
                         /\ _buffer_size'[p] = 0
                      \/ /\ pc'[p] = "raised"
                         /\ perr'[p] = "TransferFailure"
                         /\ fout'[p].written = fout[p].written
                 ELSE /\ pc'[p] = "loop"
                      /\ fout'[p].written = fout[p].written
                      /\ _buffer_size'[p] = size]_vars

\* A block has been written and a later chunk is waiting in the buffer.
C3_Witness ==
    \E p \in Procs :
        /\ pc[p] = "loop"
        /\ Len(fout[p].written) = 1
        /\ _buffer_size[p] > 0

\* The blocks written while the source still had chunks to give.
MidBlocks(p) ==
    IF pc[p] \in {"exit", "returned"}
    THEN SubSeq(fout[p].written, 1, Len(fout[p].written) - 1)
    ELSE fout[p].written

\* C4: every block written before the source is exhausted is non-empty, at
\* least the capacity, ends on a chunk boundary, and without the last chunk
\* appended to it would be below the capacity.
C4_SoftCapacity ==
    \A p \in Procs :
        \A i \in 1..Len(MidBlocks(p)) :
            LET block == fout[p].written[i]
                upto == Len(Flatten(SubSeq(fout[p].written, 1, i)))
            IN /\ Len(block) > 0
               /\ Len(block) >= _buffer_cap
               /\ \E k \in 1..fetched[p] :
                     /\ Len(Flatten(SubSeq(binary_stream[p], 1, k))) = upto
                     /\ Len(block) - Len(binary_stream[p][k]) < _buffer_cap

\* A block larger than the capacity written before the source ran out.
C4_Witness ==
    \E p \in Procs :
        /\ pc[p] = "loop"
        /\ Len(fout[p].written) = 1
        /\ Len(fout[p].written[1]) > _buffer_cap

\* C5: a failing block write aborts the push: in that step nothing is added
\* to the stream, the upload is terminated and the bucket is untouched; the
\* call has raised, it can fetch, write or return nothing more, and the
\* object under the name is what it was when the push began.
C5_WriteFailureAborts ==
    /\ [](\A p \in Procs :
             perr[p] = "TransferFailure" =>
                 /\ pc[p] = "raised"
                 /\ fout[p].state = "aborted"
                 /\ ~ENABLED push_stream_chunk(p)
                 /\ ~ENABLED push_stream_end(p)
                 /\ ~ENABLED push_stream_return(p)
                 /\ objects[ObjectKey(pname[p])] = pbefore[p])
    /\ [][\A p \in Procs :
             (perr[p] # "TransferFailure" /\ perr'[p] = "TransferFailure") =>
                 /\ fout'[p].written = fout[p].written
                 /\ objects' = objects]_vars

\* A write failed after an earlier block had been accepted, under a name
\* that already held an object.
C5_Witness ==
    \E p \in Procs :
        /\ perr[p] = "TransferFailure"
        /\ Len(fout[p].written) = 1
        /\ pbefore[p].exists
        /\ objects[ObjectKey(pname[p])] = pbefore[p]

\* C6: an opened write stream is open with no close while push_stream runs,
\* and closed exactly once when push_stream has returned or raised.
C6_WriterClosedOnce ==
    \A p \in Procs :
        /\ PushRunning(p) => fout[p].state = "open" /\ fout[p].closes = 0
        /\ (pc[p] \in {"returned", "raised"} /\ perr[p] # "ValueError") =>
              /\ fout[p].state \in {"closed", "aborted"}
              /\ fout[p].closes = 1
        /\ pc[p] = "returned" => fout[p].state = "closed"

\* The source failed while the next chunk was fetched, after a block was written.
C6_Witness ==
    \E p \in Procs :
        /\ perr[p] = "SourceFailure"
        /\ Len(fout[p].written) = 1
        /\ fout[p].closes = 1

Remaining(p) == LastN(Flatten(binary_stream[p]), _buffer_size[p])

\* C8 as claimed: at exhaustion the remaining buffer is written once if it
\* is non-empty, and no write at all is issued if it is empty.
C8_NoWriteWhenEmpty ==
    [][\A p \in Procs :
          (pc[p] = "loop" /\ pc'[p] = "exit") =>
              IF _buffer_size[p] > 0
              THEN fout'[p].written = Append(fout[p].written, Remaining(p))
              ELSE fout'[p].written = fout[p].written]_vars

\* C8 amended: at exhaustion exactly one write is issued, holding the
\* remaining buffer, which is a zero-length write when the buffer is empty;
\* the counter returns to zero.
C8_FinalWrite ==
    [][\A p \in Procs :
          (pc[p] = "loop" /\ pc'[p] = "exit") =>
              /\ Len(Remaining(p)) = _buffer_size[p]
              /\ fout'[p].written = Append(fout[p].written, Remaining(p))
              /\ _buffer_size'[p] = 0]_vars

\* A push of the empty sequence has returned after its one zero-length write.
C8_Witness ==
    \E p \in Procs :
        /\ pc[p] = "returned"
        /\ pdocs[p] = <<>>
        /\ fout[p].written = << <<>> >>
        /\ perr[p] = "none"

\* C9: when the existence check answers, delete of an absent object issues
\* no delete request and returns false (missing_ok) or raises the not-found
\* error (otherwise), and delete of a present object removes it and returns true.
C9_Delete ==
    [][(del'.called /\ del'.load \in {"ok", "404"}) =>
          LET key == ObjectKey(del'.name)
          IN /\ (del'.load = "ok") = objects[key].exists
             /\ IF objects[key].exists
                THEN /\ del'.result = "True"
                     /\ del'.requests = 1
                     /\ ~objects'[key].exists
                     /\ \A k \in Keys \ {key} : objects'[k] = objects[k]
                ELSE /\ del'.result = IF del'.missing_ok THEN "False" ELSE "ValueError"
                     /\ del'.requests = 0
                     /\ objects' = objects]_vars

\* delete found the object, removed it and returned true.
C9_Witness ==
    /\ del.called
    /\ del.load = "ok"
    /\ del.existed
    /\ del.requests = 1
    /\ del.result = "True"
    /\ ~objects[ObjectKey(del.name)].exists

\* C10: when the existence check fails with another store error, delete
\* raises that error whatever missing_ok is, issues no delete request and
\* leaves the bucket unchanged.
C10_StoreErrorPropagates ==
    [][(del'.called /\ del'.load = "error") =>
          /\ del'.result = "ClientError"
          /\ del'.requests = 0
          /\ objects' = objects]_vars

\* The check failed for an existing object with missing_ok set.
C10_Witness ==
    /\ del.called
    /\ del.load = "error"
    /\ del.missing_ok
    /\ del.existed
    /\ objects[ObjectKey(del.name)].exists

\* C11 as claimed: delete(name, missing_ok=True) returns true exactly when
\* the object existed at the call, and on an absent object returns false,
\* raises nothing and leaves the store unchanged.
C11_IdempotentDelete ==
    [][(del'.called /\ del'.missing_ok /\ del'.load # "none") =>
          LET key == ObjectKey(del'.name)
          IN /\ (del'.result = "True") = objects[key].exists
             /\ ~objects[key].exists => (del'.result = "False" /\ objects' = objects)]_vars

\* C11 amended: the same whenever the existence check answers (a store error
\* in the check is raised instead): true exactly when the object existed,
\* which then is gone; false with the store unchanged when it did not, in
\* particular on a delete repeated right after a delete of the same name; an
\* object under a name exists exactly when a push of it completed since the
\* last delete that removed it.
C11_IdempotentDeleteAnswered ==
    /\ [](objects[ObjectKey(NameX)].exists = pushed[ObjectKey(NameX)].known)
    /\ [][(del'.called /\ del'.missing_ok /\ del'.load \in {"ok", "404"}) =>
             LET key == ObjectKey(del'.name)
             IN /\ (del'.result = "True") = objects[key].exists
                /\ del'.result = "True" => ~objects'[key].exists
                /\ ~objects[key].exists =>
                      (del'.result = "False" /\ objects' = objects /\ pushed' = pushed)
                /\ del'.prev \in {"True", "False"} => del'.result = "False"]_vars

\* A delete returned true and the delete repeated after it returned false.
C11_Witness ==
    /\ del.called
    /\ del.missing_ok
    /\ del.prev = "True"
    /\ del.result = "False"
    /\ ~objects[ObjectKey(del.name)].exists

\* bucket and rest are the parts of name around its first '/'.
IsFirstSlashSplit(name, bucket, rest) ==
    /\ name = bucket \o <<Slash>> \o rest
    /\ \A i \in 1..Len(bucket) : bucket[i] # Slash

\* The object a name addresses when it is split on its first '/'.
Addressed(name, k) ==
    /\ EndsWith(k[2], Ext)
    /\ IsFirstSlashSplit(name, k[1], SubSeq(k[2], 1, Len(k[2]) - Len(Ext)))

\* C12: every operation splits its name on the first '/' only (bucket before
\* it, everything after it as key prefix); a name without '/' makes list,
\* delete, push_stream and pull_stream fail with the split's error before any
\* store request, before any remote stream is opened and before any document
\* is consumed, and the store is left as it was.
C12_NameParsing ==
    /\ [](/\ \A p \in Procs :
                /\ (pc[p] # "idle" /\ ~HasSlash(pname[p])) =>
                      /\ pc[p] = "raised" /\ perr[p] = "ValueError"
                      /\ fout[p] = NoStream
                      /\ fetched[p] = 0
                /\ (pc[p] # "idle" /\ HasSlash(pname[p])) =>
                      /\ perr[p] # "ValueError"
                      /\ fout[p].state # "none"
                      /\ pc[p] = "returned" =>
                            \E k \in Keys :
                               /\ Addressed(pname[p], k)
                               /\ objects[k].exists
                               /\ pushed[k] = [known |-> TRUE, docs |-> pdocs[p]]
          /\ (pull.pc # "idle" /\ ~HasSlash(pull.name)) =>
                (pull.pc = "failed" /\ pull.err = "ValueError" /\ rstream = NoReader)
          /\ (pull.pc # "idle" /\ HasSlash(pull.name)) =>
                /\ pull.err # "ValueError"
                /\ pull.pc = "open" =>
                      \E k \in Keys : /\ Addressed(pull.name, k)
                                      /\ rstream.data = objects[k].body
          /\ (del.called /\ ~HasSlash(del.name)) =>
                (del.result = "ValueError" /\ del.load = "none" /\ del.requests = 0)
          /\ (del.called /\ HasSlash(del.name)) =>
                /\ del.load # "none"
                /\ del.result = "True" =>
                      \E k \in Keys : Addressed(del.name, k) /\ ~objects[k].exists
          /\ (lst.called /\ ~HasSlash(lst.arg)) =>
                (lst.err = "ValueError" /\ lst.requests = 0 /\ lst.names = <<>>)
          /\ (lst.called /\ HasSlash(lst.arg)) =>
                /\ lst.err = "none"
                /\ lst.requests = 1
                /\ IsFirstSlashSplit(lst.arg, lst.bucket, lst.prefix))
    /\ [][(\/ \E p \in Procs : pc'[p] = "raised" /\ perr'[p] = "ValueError"
           \/ pull'.err = "ValueError"
           \/ del'.result = "ValueError"
           \/ lst'.err = "ValueError") => (objects' = objects /\ pushed' = pushed)]_vars

\* A push under a name without '/' failed at the split with documents on
\* offer, in a store that holds an object pushed under a name with two '/'.
C12_Witness ==
    /\ pc[1] = "raised"
    /\ pname[1] = NameBad
    /\ pdocs[1] # <<>>
    /\ perr[1] = "ValueError"
    /\ fetched[1] = 0
    /\ pushed[<<(<<"b">>), <<"n", "/", "s", "/", "y", ".", "d", "a">> >>].known

\* The key's last path segment without the extension.
StrippedName(key) ==
    LET seg == LastSegment(key) IN SubSeq(seg, 1, Len(seg) - Len(Ext))

\* C13 as claimed: list(bucket/ns) returns, in store-listing order and one
\* per qualifying object, the names of the objects whose key starts with ns
\* and ends with '.da', each name being the key with the extension and any
\* path prefix stripped.
C13_ListFiltering ==
    (lst.called /\ lst.err = "none") =>
        LET qualifying ==
                SelectSeq(KeyOrder,
                          LAMBDA k : /\ k[1] = lst.bucket
                                     /\ objects[k].exists
                                     /\ StartsWith(k[2], lst.prefix)
                                     /\ EndsWith(k[2], Ext))
        IN lst.names = [i \in 1..Len(qualifying) |-> StrippedName(qualifying[i][2])]

\* Why a delete failed: the name has no '/', the object is absent and
\* missing_ok is false, or the store refused the existence check.
FailureCause(d) ==
    IF ~d.called \/ d.result \in {"True", "False"} THEN "none"
    ELSE IF d.load = "none" THEN "InvalidName"
    ELSE IF d.load = "404" THEN "NotFound"
    ELSE "TransferFailure"

\* C14 as claimed: failures of different causes (absent object with
\* missing_ok=false, name lacking '/', propagated store error) are never
\* reported as the same error kind: two deletes in a row that fail for
\* different causes raise errors of different kinds.
C14_DistinctErrorKinds ==
    [][(/\ FailureCause(del) # "none"
        /\ FailureCause(del') # "none"
        /\ FailureCause(del) # FailureCause(del')) => del.result # del'.result]_vars

(* ----------------------------------------------------- concurrent pushes *)
\* Two callers push to the same name at once; their steps interleave freely.
ConcDocSeqs == {<<"c", "a">>, <<"a", "c">>, <<"c", "c">>}

InitConc == Init /\ \A k \in Keys : ~objects[k].exists

NextConc ==
    \/ \E p \in Procs, ds \in ConcDocSeqs : push_stream_open(p, NameX, ds)
    \/ \E p \in Procs : push_stream_chunk(p)
    \/ \E p \in Procs : push_stream_source_fails(p)
    \/ \E p \in Procs : push_stream_end(p)
    \/ \E p \in Procs : push_stream_return(p)

SpecConc == InitConc /\ [][NextConc]_vars

\* C15: two pushes to the same name, under every interleaving of their
\* steps, share no buffer state: each writes to its stream only bytes of its
\* own chunk sequence, all of them by the time it closes; the object changes
\* only when a stream closes and then holds the complete content of the push
\* that closed, so the last to close wins and the object is never a mixture.
C15_ConcurrentPushes ==
    /\ [](/\ \A p \in Procs :
                /\ IsPrefix(Flatten(fout[p].written), Flatten(binary_stream[p]))
                /\ fout[p].state = "closed" =>
                      Flatten(fout[p].written) = Flatten(_to_binary_stream(pdocs[p]))
          /\ LET key == ObjectKey(NameX)
             IN objects[key].exists =>
                   \E ds \in ConcDocSeqs :
                      /\ pushed[key] = [known |-> TRUE, docs |-> ds]
                      /\ objects[key].body = Flatten(_to_binary_stream(ds)))
    /\ [][LET key == ObjectKey(NameX)
          IN /\ \A p \in Procs :
                   (fout[p].state = "open" /\ fout'[p].state = "closed") =>
                       /\ objects'[key].exists
                       /\ objects'[key].body = Flatten(_to_binary_stream(pdocs[p]))
             /\ (\A p \in Procs : fout'[p].state = "closed" => fout[p].state = "closed")
                   => objects' = objects]_vars

\* Both pushes, of different documents and of two blocks each, have closed
\* their streams; the object holds the content of the first caller's push.
C15_Witness ==
    /\ \A p \in Procs : fout[p].state = "closed" /\ Len(fout[p].written) = 2
    /\ pdocs[1] # pdocs[2]
    /\ objects[ObjectKey(NameX)].body = Flatten(_to_binary_stream(pdocs[1]))
    /\ objects[ObjectKey(NameX)].body # Flatten(_to_binary_stream(pdocs[2]))

(* ----------------------------------------------- blocks and the buffer *)
TotalBytes(p) == Len(Flatten(binary_stream[p]))
SmallChunks(p) == \A i \in 1..Len(binary_stream[p]) : Len(binary_stream[p][i]) < _buffer_cap

\* C16: when every chunk is smaller than the capacity and the total size is
\* greater than the capacity but less than twice the capacity, a push whose
\* source is exhausted has written exactly 2 blocks to the remote stream,
\* the first of at least the capacity and the second strictly smaller than
\* the first.
C16_TwoBlocks ==
    \A p \in Procs :
        (/\ pc[p] \in {"exit", "returned"}
         /\ SmallChunks(p)
         /\ _buffer_cap < TotalBytes(p)
         /\ TotalBytes(p) < 2 * _buffer_cap) =>
            /\ Len(fout[p].written) = 2
            /\ Len(fout[p].written[1]) >= _buffer_cap
            /\ Len(fout[p].written[2]) < Len(fout[p].written[1])

\* A push of small chunks totalling more than one and less than two
\* capacities has returned after a full block and a shorter, non-empty one.
C16_Witness ==
    /\ pc[1] = "returned"
    /\ SmallChunks(1)
    /\ TotalBytes(1) = _buffer_cap + 1
    /\ Len(fout[1].written) = 2
    /\ Len(fout[1].written[2]) = 1

\* The bytes accumulated in the buffer of p and not yet written.
Pending(p) == SubSeq(_buffer[p].data, 1, _buffer_size[p])

\* C17: a push is sequential and single-pass: chunks are fetched one at a
\* time in order; a block is written in the very step whose capacity check
\* succeeds, so at every fetch the buffer holds fewer bytes than the
\* capacity and what was written plus the one pending block is what was
\* fetched; blocks are only appended to the stream, and the stream is closed
\* only after the last chunk and the final block.
C17_SequentialSinglePass ==
    /\ [](\A p \in Procs :
             /\ pc[p] = "loop" =>
                   /\ _buffer_size[p] < _buffer_cap
                   /\ Flatten(fout[p].written) \o Pending(p) = Flatten(Consumed(p))
             /\ fout[p].state = "closed" =>
                   /\ fetched[p] = Len(binary_stream[p])
                   /\ Flatten(fout[p].written) = Flatten(binary_stream[p]))
    /\ [][\A p \in Procs :
             pc[p] = "loop" =>
                /\ fetched'[p] \in {fetched[p], fetched[p] + 1}
                /\ \/ fout'[p].written = fout[p].written
                   \/ \E i \in 1..Len(fout'[p].written) :
                         fout'[p].written = Append(fout[p].written, fout'[p].written[i])
                /\ (/\ fetched'[p] = fetched[p] + 1
                    /\ pc'[p] = "loop"
                    /\ _buffer_size[p] + Len(binary_stream[p][fetched'[p]]) >= _buffer_cap) =>
                       /\ Len(fout'[p].written) = Len(fout[p].written) + 1
                       /\ _buffer_size'[p] = 0]_vars

\* A push whose first chunk is a small one closed its stream after four
\* chunks and two blocks, the first block holding several chunks.
C17_Witness ==
    /\ fout[1].state = "closed"
    /\ fetched[1] = 4
    /\ Len(fout[1].written) = 2
    /\ Len(binary_stream[1][1]) = 1
    /\ Len(fout[1].written[1]) > _buffer_cap

\* C18: the one in-memory buffer is rewound but never truncated: at every
\* fetch its position equals the size counter; every write to the remote
\* stream is exactly the first size-counter bytes of the buffer, which are
\* the bytes fetched since the previous write, so bytes left over from an
\* earlier, longer block are never written again.
C18_BufferReuse ==
    /\ [](\A p \in Procs :
             pc[p] = "loop" =>
                /\ _buffer[p].pos = _buffer_size[p]
                /\ _buffer_size[p] <= Len(_buffer[p].data))
    /\ [][\A p \in Procs :
             pc[p] = "loop" =>
                LET size == IF fetched'[p] = fetched[p] THEN _buffer_size[p]
                            ELSE _buffer_size[p] + Len(binary_stream[p][fetched'[p]])
                    n == Len(fout'[p].written)
                IN /\ Len(_buffer'[p].data) >= Len(_buffer[p].data)
                   /\ n > Len(fout[p].written) =>
                         /\ fout'[p].written[n] = SubSeq(_buffer'[p].data, 1, size)
                         /\ Flatten(fout'[p].written) =
                               Flatten(SubSeq(binary_stream[p], 1, fetched'[p]))]_vars

\* The final block was shorter than the first: the buffer still holds two
\* bytes of the first block behind the one byte that was written last.
C18_Witness ==
    /\ pc[1] = "exit"
    /\ fout[1].written = << <<2, 8, 9>>, <<0>> >>
    /\ _buffer[1].data = <<0, 8, 9>>
    /\ _buffer[1].pos = 0

(* ------------------------------------------------------------- catalog *)
\* The names bucket/ns/n of the catalog, the namespace bucket/ns of such a
\* name and its last segment n.
NestedNames == {name \in CatalogNames : Cardinality(Positions(name, Slash)) >= 2}
NamespaceOf(name) == SubSeq(name, 1, Greatest(Positions(name, Slash)) - 1)
Listed(n) == \E i \in 1..Len(lst.names) : lst.names[i] = n

\* C19 as claimed: for a name bucket/ns/n whose last segment has no '/' and
\* no '.', n appears in list(bucket/ns) if and only if the object ns/n.da
\* exists.
C19_CatalogAgreement ==
    \A name \in NestedNames :
        (lst.called /\ lst.err = "none" /\ lst.arg = NamespaceOf(name)) =>
            (Listed(LastSegment(name)) <=> objects[ObjectKey(name)].exists)

\* C19 amended: list(bucket/ns) lists n whenever the object ns/n.da exists,
\* so after a completed push of bucket/ns/n and until a delete of it returns
\* true; it lists n only if some existing object of the bucket has a key
\* that starts with ns, ends with '.da' and has a last segment that starts
\* with n followed by '.'; push, delete and list agree on bucket and key.
C19_CatalogAgreementPrefix ==
    /\ \A name \in NestedNames :
          /\ pushed[ObjectKey(name)].known => objects[ObjectKey(name)].exists
          /\ (del.called /\ del.name = name /\ del.result = "True") =>
                ~objects[ObjectKey(name)].exists
          /\ (lst.called /\ lst.err = "none" /\ lst.arg = NamespaceOf(name)) =>
                /\ lst.bucket = ObjectKey(name)[1]
                /\ StartsWith(ObjectKey(name)[2], lst.prefix)
                /\ objects[ObjectKey(name)].exists => Listed(LastSegment(name))
                /\ Listed(LastSegment(name)) =>
                      \E k \in Keys :
                         /\ k[1] = lst.bucket
                         /\ objects[k].exists
                         /\ StartsWith(k[2], lst.prefix)
                         /\ EndsWith(k[2], Ext)
                         /\ StartsWith(LastSegment(k[2]), LastSegment(name) \o <<".">>)

\* list(b/n) after a completed push of b/n/y, with nothing nested below the
\* namespace: y is the one name listed.
C19_Witness ==
    /\ lst.called
    /\ lst.arg = NamespaceOf(NameNY)
    /\ lst.names = << <<"y">> >>
    /\ pushed[ObjectKey(NameNY)].known
    /\ ~objects[ObjectKey(NameNSY)].exists

====
